---- MODULE Spec2Model ----
(***************************************************************************)
(* Model of src/src/memory_store_sqlite.py: MemoryStore, a per-user memory *)
(* store on one SQLite connection.  The state is the table memories, the   *)
(* FTS5 index memories_fts kept by the three triggers, the clock, and the  *)
(* call last made together with what it returned.  schema counts the       *)
(* objects _init_db has created, assigned is the history of the ids given  *)
(* to new rows, and calls holds the memory_add calls of two connections    *)
(* that run step by step.                                                  *)
(*                                                                         *)
(* Timestamps are seconds; the code formats them with ISO_FMT and SQLite   *)
(* compares the strings, which orders them as the seconds do.  A column    *)
(* that may be NULL holds NULL (the empty set) or a one-element set.       *)
(* Texts and queries are sequences of one-character strings.               *)
(***************************************************************************)
EXTENDS Integers, Sequences, FiniteSets, TLC

VARIABLES memories, memories_fts, fts_available, now, out, schema, assigned, calls

vars == <<memories, memories_fts, fts_available, now, out, schema, assigned, calls>>

----------------------------------------------------------------------------
(* Bounds of the model *)

MaxId == 2
MaxDays == 1
MaxSecs == 2

SecondsPerDay == 86400

Users == {"A", "B"}
Texts == {<<"N">>, <<"o", "n">>}
RankTexts == {<<"N">>, <<"n", " ", "o">>, <<"o", " ", "n">>}
Queries == {<<"n">>, <<"o", "n">>}
TopKs == {-1, 0, 1, 2}

----------------------------------------------------------------------------
(* Optional values: None / SQL NULL *)

NULL == {}
Some(v) == {v}
Val(o) == CHOOSE v \in o : TRUE

Max(S) == CHOOSE x \in S : \A y \in S : y <= x
Min2(a, b) == IF a <= b THEN a ELSE b

----------------------------------------------------------------------------
(* Helpers of the module *)

\* add_days(dt, days), with dt the second reading of the clock
add_days(dt, days) == dt + days * SecondsPerDay

\* json.dumps(tags) and json.loads(column)
json_dumps(tags) == [array |-> tags]
json_loads(j) == j.array

\* expires = add_days(datetime.utcnow(), ttl_days) if ttl_days else None
ComputeExpires(dt, ttl_days) ==
    IF ttl_days /= NULL /\ Val(ttl_days) /= 0
    THEN Some(add_days(dt, Val(ttl_days)))
    ELSE NULL

\* tags_json = json.dumps(tags) if tags else None
TagsJson(tags) ==
    IF tags /= NULL /\ Val(tags) /= <<>>
    THEN Some(json_dumps(Val(tags)))
    ELSE NULL

\* the lookup without the comparison of text
ExistingRowsNoText(user_id, text) ==
    {m \in memories : m.user_id = user_id /\ m.deleted_at = NULL}

\* the lookup without the condition deleted_at IS NULL
ExistingRowsAnyState(user_id, text) ==
    {m \in memories : m.user_id = user_id /\ m.text = text}

\* SELECT id, tags FROM memories WHERE user_id = ? AND text = ? AND deleted_at IS NULL
ExistingRows(user_id, text) ==
    {m \in memories : m.user_id = user_id /\ m.text = text /\ m.deleted_at = NULL}

Ids(S) == {m.id : m \in S}

\* the rowid SQLite gives a new row of an INTEGER PRIMARY KEY table
NewRowid == IF memories = {} THEN 1 ELSE Max({m.id : m \in memories}) + 1

\* trigger memories_ai (only created when FTS5 is available)
FtsAfterInsert(fts, new) ==
    IF fts_available THEN fts \cup {[rowid |-> new.id, text |-> new.text]} ELSE fts

\* no trigger after DELETE
FtsAfterDeleteNone(fts, old) == fts

\* trigger memories_ad (only created when FTS5 is available)
FtsAfterDelete(fts, old) ==
    IF fts_available THEN fts \ {[rowid |-> old.id, text |-> old.text]} ELSE fts

\* the clock of the model stops at MaxDays days
CanAdvance(d) == now + d <= MaxDays * SecondsPerDay

\* no call is in progress
Idle == [op |-> "idle"]

----------------------------------------------------------------------------
(* MemoryStore._init_db *)

CoreObjects == <<"memories", "idx_mem_user", "idx_mem_active">>
FtsObjects == <<"memories_fts", "memories_ai", "memories_ad", "memories_au">>
SchemaObjects ==
    {CoreObjects[i] : i \in DOMAIN CoreObjects} \cup {FtsObjects[i] : i \in DOMAIN FtsObjects}

\* CREATE without IF NOT EXISTS
CreateAgain(s, name) == [s EXCEPT ![name] = @ + 1]

\* CREATE TABLE / INDEX / VIRTUAL TABLE / TRIGGER IF NOT EXISTS name
CreateIfNotExists(s, name) == IF s[name] = 0 THEN [s EXCEPT ![name] = 1] ELSE s

RECURSIVE CreateAll(_, _)
CreateAll(s, names) ==
    IF names = <<>> THEN s
    ELSE CreateAll(CreateIfNotExists(s, Head(names)), Tail(names))

\* the statements of _init_db in order; without FTS5 the first statement of the
\* try block raises and the except clause passes
init_db(s) ==
    IF fts_available
    THEN CreateAll(CreateAll(s, CoreObjects), FtsObjects)
    ELSE CreateAll(s, CoreObjects)

\* no memory_add of a second connection is in progress
NoCalls == <<>>

----------------------------------------------------------------------------
TypeOK ==
    /\ fts_available \in BOOLEAN
    /\ now \in Nat
    /\ \A m \in memories : m.id \in Nat /\ m.user_id \in Users /\ m.text \in Texts \cup RankTexts

Init ==
    /\ memories = {}
    /\ memories_fts = {}
    /\ fts_available \in BOOLEAN
    /\ now = 0
    /\ out = Idle
    /\ schema = init_db([n \in SchemaObjects |-> 0])
    /\ assigned = {}
    /\ calls = NoCalls

----------------------------------------------------------------------------
(* MemoryStore.memory_add *)

\* a refresh that keeps the old expires_at when the call computes none
RefreshedKeepExpiry(e, tags_json, created, expires) ==
    IF expires = NULL
    THEN [e EXCEPT !.created_at = created]
    ELSE [e EXCEPT !.created_at = created, !.expires_at = expires]

\* UPDATE memories SET [tags = ?,] created_at = ?, expires_at = ? WHERE id = ?
Refreshed(e, tags_json, created, expires) ==
    IF tags_json /= NULL
    THEN [e EXCEPT !.tags = tags_json, !.created_at = created, !.expires_at = expires]
    ELSE [e EXCEPT !.created_at = created, !.expires_at = expires]

\* INSERT INTO memories (user_id, text, tags, created_at, expires_at)
Inserted(user_id, text, tags_json, created, expires) ==
    [id |-> NewRowid, user_id |-> user_id, text |-> text, tags |-> tags_json,
     created_at |-> created, expires_at |-> expires, deleted_at |-> NULL]

\* out.before is the row the lookup found, as it was before the call
memory_add(user_id, text, tags, ttl_days, skew) ==
    LET created == now
        expires == ComputeExpires(now + skew, ttl_days)
        tags_json == TagsJson(tags)
        existing == ExistingRows(user_id, text)
    IN  /\ out = Idle
        /\ now' = now + skew
        /\ UNCHANGED fts_available
        /\ IF existing /= {}
           THEN \E e \in existing :
                  /\ memories' = (memories \ {e})
                                   \cup {Refreshed(e, tags_json, created, expires)}
                  /\ UNCHANGED memories_fts
                  /\ out' = [op |-> "add", user_id |-> user_id, text |-> text,
                             tags |-> tags, ttl_days |-> ttl_days,
                             before |-> Some(e), ret |-> e.id]
           ELSE LET new == Inserted(user_id, text, tags_json, created, expires)
                IN  /\ memories' = memories \cup {new}
                    /\ memories_fts' = FtsAfterInsert(memories_fts, new)
                    /\ out' = [op |-> "add", user_id |-> user_id, text |-> text,
                               tags |-> tags, ttl_days |-> ttl_days,
                               before |-> NULL, ret |-> new.id]

\* Calls of memory_add: the clock is read twice (now, then utcnow() for expires)
\* and skew is what it moved in between; a new row is only added up to id cap
Add(Keys, TagArgs, TtlDays, Skews, cap) ==
    \E key \in Keys, tags \in TagArgs, ttl_days \in TtlDays, skew \in Skews :
        /\ CanAdvance(skew)
        /\ ExistingRows(key[1], key[2]) /= {} \/ NewRowid <= cap
        /\ memory_add(key[1], key[2], tags, ttl_days, skew)

----------------------------------------------------------------------------
(* MemoryStore.memory_delete *)

\* the UPDATE without the comparison of user_id
DeleteMatchesAnyUser(m, user_id, ids) ==
    m.id \in ids /\ m.deleted_at = NULL

\* the UPDATE without deleted_at IS NULL
DeleteMatchesAnyState(m, user_id, ids) ==
    m.user_id = user_id /\ m.id \in ids

\* UPDATE memories SET deleted_at = ? WHERE user_id = ? AND id IN (...) AND deleted_at IS NULL
DeleteMatches(m, user_id, ids) ==
    m.user_id = user_id /\ m.id \in ids /\ m.deleted_at = NULL

memory_delete(user_id, ids) ==
    /\ out = Idle
    /\ IF ids = {}
       THEN /\ out' = [op |-> "delete", user_id |-> user_id, ids |-> ids, ret |-> 0]
            /\ UNCHANGED <<memories, memories_fts, fts_available, now>>
       ELSE LET hit == {m \in memories : DeleteMatches(m, user_id, ids)}
            IN  /\ memories' = (memories \ hit)
                                 \cup {[m EXCEPT !.deleted_at = Some(now)] : m \in hit}
                /\ out' = [op |-> "delete", user_id |-> user_id, ids |-> ids,
                           ret |-> Cardinality(hit)]
                /\ UNCHANGED <<memories_fts, fts_available, now>>

Delete(IdLists) ==
    \E user_id \in Users, ids \in IdLists : memory_delete(user_id, ids)

----------------------------------------------------------------------------
(* MemoryStore.purge *)

\* the DELETE with expires_at < ?
PurgeMatchesLt(m, t) ==
    \/ m.deleted_at /= NULL
    \/ (m.expires_at /= NULL /\ Val(m.expires_at) < t)

\* the DELETE of soft-deleted rows only
PurgeMatchesDeletedOnly(m, t) == m.deleted_at /= NULL

\* DELETE FROM memories WHERE deleted_at IS NOT NULL
\*    OR (expires_at IS NOT NULL AND expires_at <= ?)
PurgeMatches(m, t) ==
    \/ m.deleted_at /= NULL
    \/ (m.expires_at /= NULL /\ Val(m.expires_at) <= t)

RECURSIVE FtsAfterDeleteAll(_, _)
FtsAfterDeleteAll(fts, olds) ==
    IF olds = {} THEN fts
    ELSE LET old == CHOOSE m \in olds : TRUE
         IN  FtsAfterDeleteAll(FtsAfterDelete(fts, old), olds \ {old})

purge ==
    LET gone == {m \in memories : PurgeMatches(m, now)}
    IN  /\ out = Idle
        /\ memories' = memories \ gone
        /\ memories_fts' = FtsAfterDeleteAll(memories_fts, gone)
        /\ out' = [op |-> "purge", ret |-> <<Cardinality(gone), Cardinality(gone)>>]
        /\ UNCHANGED <<fts_available, now>>

----------------------------------------------------------------------------
(* MemoryStore.memory_search *)

\* SQLite's LIKE folds the case of ASCII letters
Lower(c) == IF c = "N" THEN "n" ELSE IF c = "O" THEN "o" ELSE c

\* text LIKE pattern: % is any run of characters, _ is any one character
RECURSIVE Like(_, _)
Like(text, pattern) ==
    IF pattern = <<>> THEN text = <<>>
    ELSE IF Head(pattern) = "%"
         THEN Like(text, Tail(pattern))
              \/ (text /= <<>> /\ Like(Tail(text), pattern))
         ELSE /\ text /= <<>>
              /\ (Head(pattern) = "_" \/ Lower(Head(pattern)) = Lower(Head(text)))
              /\ Like(Tail(text), Tail(pattern))

\* the tokens FTS5 indexes: runs of letters, case folded, split at spaces
RECURSIVE Tokens(_, _)
Tokens(text, cur) ==
    IF text = <<>> THEN (IF cur = <<>> THEN {} ELSE {cur})
    ELSE IF Head(text) = " "
         THEN (IF cur = <<>> THEN {} ELSE {cur}) \cup Tokens(Tail(text), <<>>)
         ELSE Tokens(Tail(text), Append(cur, Lower(Head(text))))

\* memories_fts MATCH ?  for a query of one bare word
FtsMatch(text, query) == Tokens(query, <<>>) \subseteq Tokens(text, <<>>)

\* conds without m.deleted_at IS NULL
CondsNoDeleted(m, user_id, include_expired, t) ==
    /\ m.user_id = user_id
    /\ (include_expired \/ m.expires_at = NULL \/ Val(m.expires_at) > t)

\* conds with m.expires_at >= ?
CondsGe(m, user_id, include_expired, t) ==
    /\ m.user_id = user_id
    /\ m.deleted_at = NULL
    /\ (include_expired \/ m.expires_at = NULL \/ Val(m.expires_at) >= t)

\* conds: m.user_id = ? AND m.deleted_at IS NULL
\*        [AND (m.expires_at IS NULL OR m.expires_at > ?)]
Conds(m, user_id, include_expired, t) ==
    /\ m.user_id = user_id
    /\ m.deleted_at = NULL
    /\ (include_expired \/ m.expires_at = NULL \/ Val(m.expires_at) > t)

\* a tag_join that asks for every listed tag
TagJoinAll(m, tag_any) ==
    IF tag_any /= NULL /\ Val(tag_any) /= <<>>
    THEN /\ m.tags /= NULL
         /\ \A j \in DOMAIN Val(tag_any) :
                \E i \in DOMAIN json_loads(Val(m.tags)) :
                    json_loads(Val(m.tags))[i] = Val(tag_any)[j]
    ELSE TRUE

\* tag_join: EXISTS (SELECT 1 FROM json_each(m.tags) WHERE json_each.value IN (...))
TagJoin(m, tag_any) ==
    IF tag_any /= NULL /\ Val(tag_any) /= <<>>
    THEN /\ m.tags /= NULL
         /\ \E i \in DOMAIN json_loads(Val(m.tags)), j \in DOMAIN Val(tag_any) :
                json_loads(Val(m.tags))[i] = Val(tag_any)[j]
    ELSE TRUE

\* the rows the WHERE clause of the chosen path selects
Selected(user_id, query, tag_any, include_expired) ==
    {m \in memories :
        /\ Conds(m, user_id, include_expired, now)
        /\ TagJoin(m, tag_any)
        /\ IF fts_available
           THEN \E e \in memories_fts : e.rowid = m.id /\ FtsMatch(e.text, query)
           ELSE Like(m.text, <<"%">> \o query \o <<"%">>)}

\* ORDER BY m.created_at ASC on the fallback path
FirstOldest(S) ==
    IF fts_available THEN S
    ELSE {m \in S : \A o \in S : m.created_at =< o.created_at}

\* ORDER BY score (rows of equal bm25 come in any order) on the ranked path,
\* ORDER BY m.created_at DESC (ties in any order) on the fallback path
First(S) ==
    IF fts_available THEN S
    ELSE {m \in S : \A o \in S : m.created_at >= o.created_at}

RECURSIVE Ordered(_)
Ordered(S) ==
    IF S = {} THEN {<<>>}
    ELSE UNION {{<<m>> \o rest : rest \in Ordered(S \ {m})} : m \in First(S)}

\* LIMIT ?  (a negative limit is no limit)
Limit(rows, top_k) ==
    IF top_k < 0 THEN rows ELSE SubSeq(rows, 1, Min2(top_k, Len(rows)))

\* _row_to_memory
row_to_memory(r) ==
    [id |-> r.id, user_id |-> r.user_id, text |-> r.text,
     tags |-> IF r.tags /= NULL THEN Some(json_loads(Val(r.tags))) ELSE NULL,
     created_at |-> r.created_at, expires_at |-> r.expires_at]

SearchResults(user_id, query, top_k, tag_any, include_expired) ==
    LET rows == Selected(user_id, query, tag_any, include_expired)
    IN  {[i \in DOMAIN Limit(f, top_k) |-> row_to_memory(f[i])] : f \in Ordered(rows)}

memory_search(user_id, query, top_k, tag_any, include_expired) ==
    \E res \in SearchResults(user_id, query, top_k, tag_any, include_expired) :
        /\ out = Idle
        /\ out' = [op |-> "search", user_id |-> user_id,
                   include_expired |-> include_expired, ret |-> res]
        /\ UNCHANGED <<memories, memories_fts, fts_available, now>>

Search(Ks, TagAnyArgs) ==
    \E user_id \in Users, query \in Queries, top_k \in Ks, tag_any \in TagAnyArgs,
       include_expired \in BOOLEAN :
        memory_search(user_id, query, top_k, tag_any, include_expired)

----------------------------------------------------------------------------
(* memory_add on a second connection to the same file: the SELECT runs in
   autocommit mode, the transaction begins with the UPDATE or INSERT *)

Conns == {"c1", "c2"}

\* the SELECT of memory_add on connection c
AddLookup(c, user_id, text) ==
    /\ out = Idle
    /\ c \notin DOMAIN calls
    /\ calls' = [d \in DOMAIN calls \cup {c} |->
                   IF d = c
                   THEN [pc |-> "write", user_id |-> user_id, text |-> text,
                         existing |-> Ids(ExistingRows(user_id, text)), ret |-> 0]
                   ELSE calls[d]]
    /\ UNCHANGED <<memories, memories_fts, fts_available, now, out, schema, assigned>>

\* the UPDATE ... WHERE id = ? or the INSERT of memory_add on connection c,
\* and its commit
AddWrite(c, cap) ==
    /\ c \in DOMAIN calls
    /\ calls[c].pc = "write"
    /\ IF calls[c].existing /= {}
       THEN \E id \in calls[c].existing :
              /\ memories' = {IF m.id = id THEN Refreshed(m, NULL, now, NULL) ELSE m :
                                m \in memories}
              /\ UNCHANGED memories_fts
              /\ calls' = [calls EXCEPT ![c].pc = "done", ![c].ret = id]
       ELSE LET new == Inserted(calls[c].user_id, calls[c].text, NULL, now, NULL)
            IN  /\ NewRowid <= cap
                /\ memories' = memories \cup {new}
                /\ memories_fts' = FtsAfterInsert(memories_fts, new)
                /\ calls' = [calls EXCEPT ![c].pc = "done", ![c].ret = new.id]
    /\ UNCHANGED <<fts_available, now, out, schema, assigned>>

\* both callers have taken their results
AddsReturn ==
    /\ calls /= NoCalls
    /\ \A c \in DOMAIN calls : calls[c].pc = "done"
    /\ calls' = NoCalls
    /\ UNCHANGED <<memories, memories_fts, fts_available, now, out, schema, assigned>>

\* calls of memory_search with the queries Qs
SearchFor(Qs, Ks, TagAnyArgs) ==
    \E user_id \in Users, query \in Qs, top_k \in Ks, tag_any \in TagAnyArgs,
       include_expired \in BOOLEAN :
        memory_search(user_id, query, top_k, tag_any, include_expired)

----------------------------------------------------------------------------
(* The clock, and the caller taking the result of a call *)

Tick(d) ==
    /\ out = Idle
    /\ CanAdvance(d)
    /\ now' = now + d
    /\ UNCHANGED <<memories, memories_fts, fts_available, out>>

Return ==
    /\ out /= Idle
    /\ out' = Idle
    /\ UNCHANGED <<memories, memories_fts, fts_available, now>>

\* MemoryStore(path) on the file of a store that was opened before
Reopen ==
    /\ out = Idle
    /\ schema' = init_db(schema)
    /\ out' = [op |-> "open"]
    /\ UNCHANGED <<memories, memories_fts, fts_available, now, assigned, calls>>

\* what a step leaves alone that does not open the store, does not track the
\* ids given, and runs no call of a second connection
Same == UNCHANGED <<schema, assigned, calls>>

----------------------------------------------------------------------------
(* Spec: the life cycle of rows (expiry, soft delete, purge); no call passes tags *)

TtlArgs == {NULL, Some(-1), Some(0), Some(1)}

Next ==
    \/ Add(Users \X Texts, {NULL}, TtlArgs, {0}, MaxId) /\ Same
    \/ Delete(SUBSET (1..MaxId)) /\ Same
    \/ purge /\ Same
    \/ Search(TopKs, {NULL, Some(<<"a">>)}) /\ Same
    \/ Tick(SecondsPerDay) /\ Same
    \/ Return /\ Same

Spec == Init /\ [][Next]_vars

----------------------------------------------------------------------------
(* SpecTags: tag lists on add and the tag filter of search; no TTL, no clock *)

TagArgs == {NULL, Some(<<>>), Some(<<"a">>), Some(<<"b">>)}

NextTags ==
    \/ Add({"A"} \X Texts, TagArgs, {NULL}, {0}, MaxId) /\ Same
    \/ Delete(SUBSET (1..MaxId)) /\ Same
    \/ purge /\ Same
    \/ Search({-1}, {NULL, Some(<<>>), Some(<<"a">>), Some(<<"a", "b">>)}) /\ Same
    \/ Return /\ Same

SpecTags == Init /\ [][NextTags]_vars

----------------------------------------------------------------------------
(* SpecSweep: one more row than Spec, of one text, deleted one id at a time *)

NextSweep ==
    \/ Add(Users \X {<<"N">>}, {NULL}, TtlArgs, {0}, MaxId + 1) /\ Same
    \/ Delete({{i} : i \in 1..(MaxId + 1)}) /\ Same
    \/ purge /\ Same
    \/ Search({-1}, {NULL}) /\ Same
    \/ Tick(SecondsPerDay) /\ Same
    \/ Return /\ Same

SpecSweep == Init /\ [][NextSweep]_vars

-----------------------------------------------------------------------------
(* SpecOpen: the store is opened again between the calls *)

NextOpen ==
    \/ Add({"A"} \X Texts, {NULL}, {NULL}, {0}, MaxId) /\ Same
    \/ Delete({{i} : i \in 1..MaxId}) /\ Same
    \/ purge /\ Same
    \/ Search({-1}, {NULL}) /\ Same
    \/ Reopen
    \/ Return /\ Same

SpecOpen == Init /\ [][NextOpen]_vars

-----------------------------------------------------------------------------
(* SpecIds: assigned collects every id a row has been given *)

NextIds ==
    \/ /\ Add(Users \X Texts, {NULL}, {NULL}, {0}, MaxId)
       /\ assigned' = assigned \cup Ids(memories')
       /\ UNCHANGED <<schema, calls>>
    \/ Delete({{i} : i \in 1..MaxId}) /\ Same
    \/ purge /\ Same
    \/ Return /\ Same

SpecIds == Init /\ [][NextIds]_vars

-----------------------------------------------------------------------------
(* SpecClock: the clock may pass a second boundary between the two reads of
   memory_add, at most MaxSecs times *)

NextClock ==
    \/ /\ now < MaxSecs
       /\ Add(Users \X {<<"N">>}, {NULL}, {NULL, Some(1)}, {0, 1}, MaxId)
       /\ Same
    \/ Delete({{i} : i \in 1..MaxId}) /\ Same
    \/ purge /\ Same
    \/ Return /\ Same

SpecClock == Init /\ [][NextClock]_vars

-----------------------------------------------------------------------------
(* SpecLike: a SQLite without FTS5, queries with the characters % and _ *)

LikeQueries == {<<"n">>, <<"o", "n">>, <<"_">>, <<"%">>}

InitLike == Init /\ ~fts_available

NextLike ==
    \/ Add(Users \X Texts, {NULL}, {NULL}, {0}, MaxId) /\ Same
    \/ Delete({{i} : i \in 1..MaxId}) /\ Same
    \/ purge /\ Same
    \/ SearchFor(LikeQueries, {-1}, {NULL}) /\ Same
    \/ Return /\ Same

SpecLike == InitLike /\ [][NextLike]_vars

-----------------------------------------------------------------------------
(* SpecRank: up to three rows of one user that all match the query "n",
   created on two days, searched with a positive top_k *)

NextRank ==
    \/ Add({"A"} \X RankTexts, {NULL}, {NULL}, {0}, MaxId + 1) /\ Same
    \/ Delete({{i} : i \in 1..(MaxId + 1)}) /\ Same
    \/ SearchFor({<<"n">>}, 1..MaxId, {NULL}) /\ Same
    \/ Tick(SecondsPerDay) /\ Same
    \/ Return /\ Same

SpecRank == Init /\ [][NextRank]_vars

-----------------------------------------------------------------------------
(* SpecRace: two connections call memory_add, their steps interleave; delete
   and purge run while no add is in progress *)

NextRace ==
    \/ \E c \in Conns, key \in Users \X Texts : AddLookup(c, key[1], key[2])
    \/ \E c \in Conns : AddWrite(c, MaxId)
    \/ AddsReturn
    \/ calls = NoCalls /\ Delete({{i} : i \in 1..MaxId}) /\ Same
    \/ calls = NoCalls /\ purge /\ Same
    \/ Return /\ Same

SpecRace == Init /\ [][NextRace]_vars

----------------------------------------------------------------------------
(* Properties *)

Active(S, user_id, text) ==
    {m \in S : m.user_id = user_id /\ m.text = text /\ m.deleted_at = NULL}
RowOf(S, id) == CHOOSE m \in S : m.id = id
OthersRows(S, user_id) == {m \in S : m.user_id /= user_id}

\* C1: after every add, delete and purge there is at most one active row for each
\* (user_id, text); an add that finds an active row returns that row's id and
\* inserts no row; after any add exactly one active row of the pair exists and
\* the call returned its id.
C1_Dedup ==
    [][/\ \A m1, m2 \in memories' :
            (m1.user_id = m2.user_id /\ m1.text = m2.text
             /\ m1.deleted_at = NULL /\ m2.deleted_at = NULL) => m1 = m2
       /\ out'.op = "add" =>
            /\ Ids(Active(memories', out'.user_id, out'.text)) = {out'.ret}
            /\ Cardinality(Active(memories', out'.user_id, out'.text)) = 1
            /\ Active(memories, out'.user_id, out'.text) /= {} =>
                 /\ Ids(Active(memories, out'.user_id, out'.text)) = {out'.ret}
                 /\ Cardinality(memories') = Cardinality(memories)
                 /\ Ids(memories') = Ids(memories)]_vars

\* an add found the active row of its pair while a soft-deleted row of the same
\* pair is in the table
C1_Witness ==
    /\ out.op = "add"
    /\ out.before /= NULL
    /\ \E m \in memories :
         /\ m.user_id = out.user_id /\ m.text = out.text
         /\ m.deleted_at /= NULL /\ m.id /= out.ret

\* C2: no search returns a row whose deleted_at is set, whatever the query, the
\* tag filter, top_k and include_expired.
C2_DeletedHidden ==
    out.op = "search" =>
        \A i \in DOMAIN out.ret :
            \A m \in memories : m.id = out.ret[i].id => m.deleted_at = NULL

\* a search with include_expired returned a row while its owner has a
\* soft-deleted row of the same text
C2_Witness ==
    /\ out.op = "search"
    /\ out.include_expired
    /\ \E i \in DOMAIN out.ret : \E m \in memories :
         /\ m.deleted_at /= NULL
         /\ m.user_id = out.user_id
         /\ m.text = out.ret[i].text

\* C3: a search without include_expired returns only rows whose expires_at is
\* absent or later than now (expires_at = now is excluded); with include_expired
\* the filter on a row is ownership and deleted_at alone, whatever its expiry.
C3_Expiry ==
    /\ (out.op = "search" /\ ~out.include_expired) =>
          \A i \in DOMAIN out.ret :
              out.ret[i].expires_at = NULL \/ Val(out.ret[i].expires_at) > now
    /\ \A m \in memories, u \in Users :
          Conds(m, u, TRUE, now) <=> (m.user_id = u /\ m.deleted_at = NULL)

\* a default search ran for a user who has an active row that expires exactly now
C3_Witness ==
    /\ out.op = "search"
    /\ ~out.include_expired
    /\ \E m \in memories :
         /\ m.user_id = out.user_id
         /\ m.deleted_at = NULL
         /\ m.expires_at = Some(now)

\* a search with include_expired returned a row that has expired
C3_WitnessExpired ==
    /\ out.op = "search"
    /\ out.include_expired
    /\ \E i \in DOMAIN out.ret :
         out.ret[i].expires_at /= NULL /\ Val(out.ret[i].expires_at) <= now

\* C4: purge removes exactly the rows, of every user, that are soft-deleted or
\* whose expires_at is present and <= now, leaves the others as they were, and
\* returns the number removed twice.
C4_Purge ==
    [][out'.op = "purge" =>
         LET gone == {m \in memories :
                         \/ m.deleted_at /= NULL
                         \/ (m.expires_at /= NULL /\ Val(m.expires_at) <= now)}
         IN  /\ memories' = memories \ gone
             /\ out'.ret = <<Cardinality(gone), Cardinality(gone)>>]_vars

\* a purge removed two rows and kept one, which a default search would return
C4_Witness ==
    /\ out.op = "purge"
    /\ out.ret = <<2, 2>>
    /\ Cardinality(memories) = 1
    /\ \A m \in memories :
         m.deleted_at = NULL /\ (m.expires_at = NULL \/ Val(m.expires_at) > now)

\* C5: at every instant t, purge at t removes a row exactly when a default search
\* at t hides it on life-cycle grounds.
C5_Complement ==
    \A m \in memories :
        \A t \in {now - SecondsPerDay, now - 1, now, now + 1, now + SecondsPerDay} :
            PurgeMatches(m, t) <=> ~Conds(m, m.user_id, FALSE, t)

\* a purge removed a row and kept a row whose expiry is still ahead
C5_Witness ==
    /\ out.op = "purge"
    /\ out.ret[1] >= 1
    /\ \E m \in memories : m.expires_at /= NULL /\ Val(m.expires_at) > now

\* C6: with the index available, memories_fts holds exactly one entry per row of
\* memories, with the row's id and text, and no two rows share an id.
C6_IndexMirror ==
    fts_available =>
        /\ memories_fts = {[rowid |-> m.id, text |-> m.text] : m \in memories}
        /\ \A m1, m2 \in memories : m1.id = m2.id => m1 = m2
        /\ \A e1, e2 \in memories_fts : e1.rowid = e2.rowid => e1 = e2

\* with the index available, a purge destroyed a row and left another
C6_Witness ==
    /\ fts_available
    /\ out.op = "purge"
    /\ out.ret[1] >= 1
    /\ memories /= {}
    /\ memories_fts /= {}

\* with the index available, a soft-deleted row is still indexed
C6_WitnessSoft ==
    /\ fts_available
    /\ out.op = "delete"
    /\ out.ret >= 1
    /\ \E m \in memories :
         m.deleted_at /= NULL /\ [rowid |-> m.id, text |-> m.text] \in memories_fts

\* C7: on an upsert-refresh the row's tags read back as the caller's list whenever
\* a list was passed (an empty list too), and are unchanged when none was passed.
C7_TagsReplaced ==
    (out.op = "add" /\ out.before /= NULL) =>
        LET after == RowOf(memories, out.ret)
        IN  IF out.tags /= NULL
            THEN row_to_memory(after).tags = out.tags
            ELSE after.tags = Val(out.before).tags

\* C8: an upsert-refresh sets created_at to the instant of the call and expires_at
\* from this call's ttl_days alone (absent when ttl_days is absent, whatever it
\* was); a row that had expired keeps its id and is active and unexpired again.
C8_Refresh ==
    (out.op = "add" /\ out.before /= NULL) =>
        LET after == RowOf(memories, out.ret)
            old == Val(out.before)
        IN  /\ after.id = old.id
            /\ after.deleted_at = NULL
            /\ after.created_at <= now /\ after.created_at >= now - 1
            /\ out.ttl_days = NULL => after.expires_at = NULL
            /\ (out.ttl_days /= NULL /\ Val(out.ttl_days) > 0) =>
                  /\ after.expires_at /= NULL
                  /\ Val(after.expires_at) >= after.created_at
                                               + Val(out.ttl_days) * SecondsPerDay
                  /\ Val(after.expires_at) <= after.created_at + 1
                                               + Val(out.ttl_days) * SecondsPerDay
            /\ (out.ttl_days = NULL /\ old.expires_at /= NULL) =>
                  Conds(after, out.user_id, FALSE, now)

\* an add without ttl_days refreshed a row whose expires_at had passed
C8_Witness ==
    /\ out.op = "add"
    /\ out.before /= NULL
    /\ out.ttl_days = NULL
    /\ Val(out.before).expires_at /= NULL
    /\ Val(Val(out.before).expires_at) <= now
    /\ RowOf(memories, out.ret).expires_at = NULL

\* C9: search returns only rows of its user; delete and add leave every row of
\* the other users as it was, and add returns a row of its own user.
C9_Isolation ==
    [][/\ out'.op = "search" =>
            \A i \in DOMAIN out'.ret : out'.ret[i].user_id = out'.user_id
       /\ out'.op \in {"add", "delete"} =>
            OthersRows(memories', out'.user_id) = OthersRows(memories, out'.user_id)
       /\ out'.op = "add" =>
            RowOf(memories', out'.ret).user_id = out'.user_id]_vars

\* a delete named the id of another user's active row, which is still active
C9_Witness ==
    /\ out.op = "delete"
    /\ \E m \in memories :
         m.user_id /= out.user_id /\ m.id \in out.ids /\ m.deleted_at = NULL

\* an add refreshed or inserted a row while another user has a row of that text
C9_WitnessAdd ==
    /\ out.op = "add"
    /\ \E m \in memories :
         m.user_id /= out.user_id /\ m.text = out.text /\ m.id /= out.ret

\* C10: delete sets deleted_at on exactly the active rows of its user whose id is
\* listed, changes no other row, and returns how many it set; an empty list
\* returns 0 and changes nothing.
C10_Delete ==
    [][out'.op = "delete" =>
         LET hit == {m \in memories :
                        /\ m.user_id = out'.user_id
                        /\ m.id \in out'.ids
                        /\ m.deleted_at = NULL}
         IN  /\ out'.ret = Cardinality(hit)
             /\ memories \ hit \subseteq memories'
             /\ Cardinality(memories') = Cardinality(memories)
             /\ \A m \in hit :
                  \E d \in memories' :
                     d.deleted_at /= NULL /\ [d EXCEPT !.deleted_at = NULL] = m
             /\ out'.ids = {} => (out'.ret = 0 /\ memories' = memories)]_vars

\* a delete set deleted_at on one row and skipped other listed ids
C10_Witness ==
    /\ out.op = "delete"
    /\ out.ret >= 1
    /\ out.ret < Cardinality(out.ids)
    /\ \E m \in memories :
         m.id \in out.ids /\ (m.user_id /= out.user_id \/ m.deleted_at /= Some(now))

Elems(seq) == {seq[i] : i \in DOMAIN seq}
ReturnedIds(res) == {res[i].id : i \in DOMAIN res}
TagAnyAll == {NULL, Some(<<>>), Some(<<"a">>), Some(<<"b">>), Some(<<"a", "b">>)}

\* C11: with a non-empty tag_any a search without limit returns, of the rows it
\* would return without a tag filter, exactly those with a tag that is in
\* tag_any (rows without tags never); an absent or empty tag_any filters nothing.
C11_TagFilter ==
    \A u \in Users, q \in Queries, ie \in BOOLEAN, tg \in TagAnyAll :
        LET base == Selected(u, q, NULL, ie)
            want == IF tg /= NULL /\ Val(tg) /= <<>>
                    THEN {m \in base :
                            /\ row_to_memory(m).tags /= NULL
                            /\ Elems(Val(row_to_memory(m).tags)) \cap Elems(Val(tg)) /= {}}
                    ELSE base
        IN  \A res \in SearchResults(u, q, -1, tg, ie) : ReturnedIds(res) = Ids(want)

\* a search for tag_any = ["a", "b"] returned a row tagged ["a"] and left out a
\* row without tags that the same search without a tag filter returns
C11_Witness ==
    /\ out.op = "search"
    /\ \E q \in Queries :
         /\ out.ret \in SearchResults(out.user_id, q, -1, Some(<<"a", "b">>),
                                       out.include_expired)
         /\ \E i \in DOMAIN out.ret : out.ret[i].tags = Some(<<"a">>)
         /\ \E m \in Selected(out.user_id, q, NULL, out.include_expired) :
              m.tags = NULL /\ m.id \notin ReturnedIds(out.ret)

\* C13: the expiry add writes is absent when ttl_days is absent, zero or
\* negative, and is the call instant plus ttl_days days for a positive ttl_days;
\* the row add returns is never already expired.
C13_Expiry ==
    out.op = "add" =>
        LET m == RowOf(memories, out.ret)
        IN  /\ m.expires_at =
                 IF out.ttl_days = NULL \/ Val(out.ttl_days) <= 0
                 THEN NULL
                 ELSE Some(add_days(m.created_at, Val(out.ttl_days)))
            /\ m.expires_at /= NULL => Val(m.expires_at) > now

\* C14: search with top_k <= 0 returns the empty sequence on the ranked and on
\* the fallback path, whatever rows the store holds.
C14_NonPositiveTopK ==
    \A u \in Users, q \in Queries, ie \in BOOLEAN, k \in {-1, 0} :
        SearchResults(u, q, k, NULL, ie) = {<<>>}

\* C20: a soft-deleted row stays exactly as it is in every step, unless the
\* step is a purge that destroys it; an add of its (user_id, text) returns
\* another id, and when the pair has no active row that id is one no row had.
C20_Irreversible ==
    [][ \A m \in memories : m.deleted_at /= NULL =>
          /\ m \in memories' \/ (out'.op = "purge" /\ m.id \notin Ids(memories'))
          /\ (out'.op = "add" /\ out'.user_id = m.user_id /\ out'.text = m.text) =>
                /\ out'.ret /= m.id
                /\ Active(memories, m.user_id, m.text) = {} =>
                      /\ out'.ret \notin Ids(memories)
                      /\ RowOf(memories', out'.ret).deleted_at = NULL ]_vars

\* add has inserted a new row for a pair whose soft-deleted row still exists
C20_Witness ==
    /\ out.op = "add"
    /\ out.before = NULL
    /\ \E m \in memories :
         /\ m.deleted_at /= NULL
         /\ m.user_id = out.user_id /\ m.text = out.text
         /\ m.id /= out.ret
         /\ RowOf(memories, out.ret).deleted_at = NULL

\* C17: opening a store that was opened before leaves every schema object
\* there once (no second table, index, search index or trigger), and leaves
\* every row and every index entry as it was.
C17_Reopen ==
    [][ out'.op = "open" =>
          /\ schema' = schema
          /\ \A n \in SchemaObjects : schema'[n] <= 1
          /\ memories' = memories
          /\ memories_fts' = memories_fts ]_vars

\* the store was opened again while it held an active and a soft-deleted row
C17_Witness ==
    /\ out.op = "open"
    /\ schema["memories"] = 1
    /\ \E m \in memories : m.deleted_at = NULL
    /\ \E m \in memories : m.deleted_at /= NULL

\* C16: the id add gives a newly inserted row is greater than every id given
\* to an earlier row, purged rows included, and no row changes its id.
C16_NeverReused ==
    [][ /\ (out'.op = "add" /\ out'.before = NULL) =>
              \A i \in assigned : out'.ret > i
        /\ \A m \in memories : \A n \in memories' :
              (m.id = n.id /\ ~(out'.op = "add" /\ out'.before = NULL /\ out'.ret = n.id))
                  => (m.user_id = n.user_id /\ m.text = n.text) ]_vars

\* C19: a row add has just inserted is not deleted, its created_at is the
\* instant of the call, and for a positive ttl_days its expires_at is its
\* created_at plus exactly ttl_days days, also when the clock moves on by a
\* second during the call.
C19_OneInstant ==
    (out.op = "add" /\ out.before = NULL) =>
        LET m == RowOf(memories, out.ret)
        IN  /\ m.deleted_at = NULL
            /\ m.created_at <= now
            /\ (out.ttl_days /= NULL /\ Val(out.ttl_days) > 0) =>
                  m.expires_at = Some(add_days(m.created_at, Val(out.ttl_days)))

\* query occurs in text as a substring, letters compared without case
Contains(text, query) ==
    \E i \in 0..(Len(text) - Len(query)) :
        \A j \in 1..Len(query) : Lower(text[i + j]) = Lower(query[j])

\* C18: on the fallback path every returned row has a text that contains the
\* query as a case-insensitive substring, also for a query with % or _, and
\* without a limit every visible row whose text contains the query is returned.
C18_Substring ==
    ~fts_available =>
        \A u \in Users, q \in LikeQueries, ie \in BOOLEAN :
            \A res \in SearchResults(u, q, -1, NULL, ie) :
                /\ \A i \in DOMAIN res : Contains(res[i].text, q)
                /\ \A m \in memories :
                      (Conds(m, u, ie, now) /\ Contains(m.text, q))
                          => m.id \in ReturnedIds(res)

\* C15: for a positive top_k a search returns min(top_k, number of visible
\* matching rows) different rows of them; on the fallback path they come in
\* non-increasing created_at order and no row left out is later than a
\* returned one.
C15_TopK ==
    \A ie \in BOOLEAN, k \in 1..(MaxId + 2) :
        LET vis == Selected("A", <<"n">>, NULL, ie)
        IN  \A res \in SearchResults("A", <<"n">>, k, NULL, ie) :
              /\ Len(res) = Min2(k, Cardinality(vis))
              /\ Cardinality(ReturnedIds(res)) = Len(res)
              /\ ReturnedIds(res) \subseteq Ids(vis)
              /\ ~fts_available =>
                    /\ \A i, j \in DOMAIN res :
                          i < j => res[i].created_at >= res[j].created_at
                    /\ \A m \in vis : m.id \notin ReturnedIds(res) =>
                          \A i \in DOMAIN res : m.created_at =< res[i].created_at

\* top_k = 1 against three matches on the fallback path: the one row returned
\* is later than another match
C15_Witness ==
    /\ out.op = "search"
    /\ ~fts_available
    /\ Len(out.ret) = 1
    /\ out.ret \in SearchResults("A", <<"n">>, 1, NULL, out.include_expired)
    /\ LET vis == Selected("A", <<"n">>, NULL, out.include_expired)
       IN  /\ Cardinality(vis) = 3
           /\ \E m \in vis : m.created_at < out.ret[1].created_at

\* C12: when two connections have both finished an add of the same
\* (user_id, text), whatever the order of their lookups and writes, the pair
\* has exactly one active row, and both calls returned its id.
C12_Atomic ==
    \A c, d \in DOMAIN calls :
        ( /\ c /= d
          /\ calls[c].pc = "done" /\ calls[d].pc = "done"
          /\ calls[c].user_id = calls[d].user_id /\ calls[c].text = calls[d].text )
        => /\ Cardinality(Active(memories, calls[c].user_id, calls[c].text)) = 1
           /\ \A m \in Active(memories, calls[c].user_id, calls[c].text) :
                 calls[c].ret = m.id /\ calls[d].ret = m.id

====
